---- MODULE Spec2Model ----
(***************************************************************************)
(* Model of fix_bold_spacing.py: the regular-expression substitution of   *)
(* line 19-20, the per-file read / compare / write of fix_bold_spacing(),  *)
(* and the loop of main().                                                 *)
(*                                                                         *)
(* A text is a sequence of one-character strings.  A path is a sequence of *)
(* pieces of its string form; the piece "node_modules" stands for that     *)
(* substring wherever it occurs in str(md_file).                           *)
(***************************************************************************)
EXTENDS Integers, Sequences, FiniteSets, TLC

VARIABLES
    \* --- state of one run of main() ---
    md_files,    \* the discovered paths, in glob order (line 33)
    disk,        \* disk[f]: current content of file f
    disk0,       \* disk0[f]: content of file f before the run
    idx,         \* position of the for loop of main in md_files
    pc,          \* where the run is: "loop", "compare", "write", "done"
    content,     \* local `content` of fix_bold_spacing
    original,    \* local `original` of fix_bold_spacing
    fixed,       \* local `fixed` of main
    stdout,      \* the lines printed so far
    readOpens,   \* readOpens[f]: calls of open(f, 'r')
    writeOpens,  \* writeOpens[f]: calls of open(f, 'w')
    readsDone,   \* readsDone[f]: with-blocks of line 12-13 left without error
    writesDone,  \* writesDone[f]: with-blocks of line 23-24 left without error
    ret,         \* ret[f]: what fix_bold_spacing(f) returned ("none" before)
    \* --- state of the substitution applied to one text, pass after pass ---
    text,        \* the input text
    prev,        \* the text the last pass was applied to
    out,         \* the result of the last pass
    pass,        \* how many passes were applied
    changed      \* `content != original` of the last pass (line 22)

runVars == <<md_files, disk, disk0, idx, pc, content, original, fixed, stdout,
             readOpens, writeOpens, readsDone, writesDone, ret>>
subVars == <<text, prev, out, pass, changed>>
vars == <<md_files, disk, disk0, idx, pc, content, original, fixed, stdout,
          readOpens, writeOpens, readsDone, writesDone, ret,
          text, prev, out, pass, changed>>

-----------------------------------------------------------------------------
(* Bounds *)

MaxChunks == 4
NumFiles == 2
MaxPasses == 2

-----------------------------------------------------------------------------
(* The regular expression of line 19 *)

\* [A-Za-z]
Letters ==
    {"a","b","c","d","e","f","g","h","i","j","k","l","m","n","o","p","q","r",
     "s","t","u","v","w","x","y","z","A","B","C","D","E","F","G","H","I","J",
     "K","L","M","N","O","P","Q","R","S","T","U","V","W","X","Y","Z"}

IsLetter(c) == c \in Letters

\* [^\*]
NotStar(c) == c # "*"

\* [^\*]+ is greedy: from j it first takes the whole run of non-asterisks.
\* GreedyEnd is the last index of that run (j - 1 when the run is empty).
RECURSIVE GreedyEnd(_, _)
GreedyEnd(t, j) ==
    IF j > Len(t) \/ ~NotStar(t[j]) THEN j - 1 ELSE GreedyEnd(t, j + 1)

\* the literal tail :\*\* at index k
TailAt(t, k) ==
    k + 2 <= Len(t) /\ t[k] = ":" /\ t[k + 1] = "*" /\ t[k + 2] = "*"

\* the least number of characters [^\*]+ must take
MinRun == 1

Max(S) == CHOOSE m \in S : \A n \in S : n <= m

\* The index of the last character of the match that starts at i, 0 when
\* the pattern does not match at i.  After the greedy run the matcher gives
\* characters back one at a time until the tail :\*\* follows.
MatchEndAnyFirst(t, i) ==
    IF /\ i + 3 <= Len(t)
       /\ t[i] = "*" /\ t[i + 1] = "*" /\ t[i + 2] = " "
       /\ NotStar(t[i + 3])
    THEN LET g  == GreedyEnd(t, i + 4)
             ks == {k \in (i + 3 + MinRun)..g : TailAt(t, k + 1)}
         IN  IF ks = {} THEN 0 ELSE Max(ks) + 3
    ELSE 0

MatchEnd(t, i) ==
    IF /\ i + 3 <= Len(t)
       /\ t[i] = "*" /\ t[i + 1] = "*" /\ t[i + 2] = " "
       /\ IsLetter(t[i + 3])
    THEN LET g  == GreedyEnd(t, i + 4)
             ks == {k \in (i + 3 + MinRun)..g : TailAt(t, k + 1)}
         IN  IF ks = {} THEN 0 ELSE Max(ks) + 3
    ELSE 0

\* the replacement r'**\1' of the match i..e: group 1 starts after the space
ReplacementDropsFirst(t, i, e) == <<"*", "*">> \o SubSeq(t, i + 4, e)

Replacement(t, i, e) == <<"*", "*">> \o SubSeq(t, i + 3, e)

\* re.sub scans left to right; after a match it goes on behind the match,
\* elsewhere it copies one character and moves on by one.
RECURSIVE SubFrom(_, _)
SubFrom(t, i) ==
    IF i > Len(t) THEN <<>>
    ELSE LET e == MatchEnd(t, i)
         IN  IF e # 0
             THEN Replacement(t, i, e) \o SubFrom(t, e + 1)
             ELSE <<t[i]>> \o SubFrom(t, i + 1)

\* re.sub(pattern, r'**\1', content), line 20
Sub(t) == SubFrom(t, 1)

\* content != original, line 22
ChangedAlways(c, o) == TRUE

Changed(c, o) == c # o

-----------------------------------------------------------------------------
(* Input texts *)

Chunks ==
    { <<"*", "*", " ">>,
      <<"*", "*">>,
      <<"a", "b", ":", "*", "*">>,
      <<"a", ":", "*", "*">>,
      <<"1", "b", ":", "*", "*">>,
      <<"a", "b">>,
      <<" ">>,
      <<"*">>,
      <<":">> }

RECURSIVE Flatten(_)
Flatten(cs) == IF cs = <<>> THEN <<>> ELSE Head(cs) \o Flatten(Tail(cs))

\* ** Name:** value
Scenario1 ==
    <<"*","*"," ","N","a","m","e",":","*","*"," ","v","a","l","u","e">>
\* **Name:** value
Scenario2 ==
    <<"*","*","N","a","m","e",":","*","*"," ","v","a","l","u","e">>
\* ** A:** x ** B:** y
Scenario3 ==
    <<"*","*"," ","A",":","*","*"," ","x"," ",
      "*","*"," ","B",":","*","*"," ","y">>
\* **A:** x **B:** y
Scenario3Fixed ==
    <<"*","*","A",":","*","*"," ","x"," ","*","*","B",":","*","*"," ","y">>
\* ** 1:** x
Scenario4 == <<"*","*"," ","1",":","*","*"," ","x">>
\* **ab** cd:**
BoldThenLabel == <<"*","*","a","b","*","*"," ","c","d",":","*","*">>

Scenarios == {Scenario1, Scenario2, Scenario3, Scenario4, BoldThenLabel}

Texts ==
    Scenarios \cup
    {Flatten(cs) : cs \in UNION {[1..n -> Chunks] : n \in 0..MaxChunks}}

-----------------------------------------------------------------------------
(* The substitution applied pass after pass to one text *)

RunIdle ==
    /\ md_files = <<>> /\ disk = <<>> /\ disk0 = <<>>
    /\ idx = 1 /\ pc = "idle" /\ content = <<>> /\ original = <<>>
    /\ fixed = 0 /\ stdout = <<>>
    /\ readOpens = <<>> /\ writeOpens = <<>>
    /\ readsDone = <<>> /\ writesDone = <<>> /\ ret = <<>>

SubInit ==
    /\ text \in Texts
    /\ prev = text /\ out = text /\ pass = 0 /\ changed = FALSE
    /\ RunIdle

\* lines 15-22 on the text `out`
ApplySub ==
    /\ pass < MaxPasses
    /\ prev' = out
    /\ out' = Sub(out)
    /\ changed' = Changed(Sub(out), out)
    /\ pass' = pass + 1
    /\ UNCHANGED <<text, runVars>>

SubNext == ApplySub

SubSpec == SubInit /\ [][SubNext]_vars

-----------------------------------------------------------------------------
(* One run of main() over the discovered files *)

\* str(md_file) of the files root.glob('**/*.md') can yield
Paths ==
    { <<"docs", "/", "a.md">>,
      <<"node_modules", "/", "pkg", "/", "README.md">>,
      <<"my_", "node_modules", "_old", "/", "b.md">>,
      <<"c.md">> }

\* contents of the files: ** ab:**   **ab:**   ** 1:**
Defect == <<"*", "*", " ", "a", "b", ":", "*", "*">>
Clean == <<"*", "*", "a", "b", ":", "*", "*">>
DigitLabel == <<"*", "*", " ", "1", ":", "*", "*">>
FileTexts == {Defect, Clean, DigitLabel}

Files == 1..NumFiles

\* 'node_modules' in str(md_file), line 37
ExcludedNever(p) == FALSE

Excluded(p) == \E i \in 1..Len(p) : p[i] = "node_modules"

Line(k, p, n) == [kind |-> k, file |-> p, n |-> n]

SubIdle ==
    text = <<>> /\ prev = <<>> /\ out = <<>> /\ pass = 0 /\ changed = FALSE

Init ==
    /\ md_files \in {s \in [Files -> Paths] :
                        \A i, j \in Files : i # j => s[i] # s[j]}
    /\ disk \in [Files -> FileTexts]
    /\ disk0 = disk
    /\ idx = 1 /\ pc = "loop"
    /\ content = <<>> /\ original = <<>>
    /\ fixed = 0 /\ stdout = <<>>
    /\ readOpens = [f \in Files |-> 0] /\ writeOpens = [f \in Files |-> 0]
    /\ readsDone = [f \in Files |-> 0] /\ writesDone = [f \in Files |-> 0]
    /\ ret = [f \in Files |-> "none"]
    /\ SubIdle

\* fix_bold_spacing(md_file) returned False: line 39 is false, next file
ReturnFalse ==
    /\ ret' = [ret EXCEPT ![idx] = "False"]
    /\ idx' = idx + 1
    /\ pc' = "loop"
    /\ UNCHANGED fixed

\* the except clause, lines 27-29
Except ==
    /\ stdout' = Append(stdout, Line("error", md_files[idx], 0))
    /\ ReturnFalse

\* lines 37-38: continue
Skip ==
    /\ pc = "loop" /\ idx <= NumFiles
    /\ Excluded(md_files[idx])
    /\ idx' = idx + 1
    /\ UNCHANGED <<md_files, disk, disk0, pc, content, original, fixed, stdout,
                   readOpens, writeOpens, readsDone, writesDone, ret, subVars>>

\* lines 12-20: the file is read and the rule applied
ReadOk ==
    /\ pc = "loop" /\ idx <= NumFiles
    /\ ~Excluded(md_files[idx])
    /\ readOpens' = [readOpens EXCEPT ![idx] = @ + 1]
    /\ readsDone' = [readsDone EXCEPT ![idx] = @ + 1]
    /\ original' = disk[idx]
    /\ content' = Sub(disk[idx])
    /\ pc' = "compare"
    /\ UNCHANGED <<md_files, disk, disk0, idx, fixed, stdout, writeOpens,
                   writesDone, ret, subVars>>

\* lines 12-13 raise (permission, encoding, file removed): lines 27-29
ReadFailRetries ==
    /\ pc = "loop" /\ idx <= NumFiles
    /\ ~Excluded(md_files[idx])
    /\ readOpens' = [readOpens EXCEPT ![idx] = @ + 1]
    /\ stdout' = Append(stdout, Line("error", md_files[idx], 0))
    /\ UNCHANGED <<md_files, disk, disk0, idx, pc, content, original, fixed,
                   writeOpens, readsDone, writesDone, ret, subVars>>

ReadFailAborts ==
    /\ pc = "loop" /\ idx <= NumFiles
    /\ ~Excluded(md_files[idx])
    /\ readOpens' = [readOpens EXCEPT ![idx] = @ + 1]
    /\ pc' = "aborted"
    /\ UNCHANGED <<md_files, disk, disk0, idx, content, original, fixed, stdout,
                   writeOpens, readsDone, writesDone, ret, subVars>>

ReadFail ==
    /\ pc = "loop" /\ idx <= NumFiles
    /\ ~Excluded(md_files[idx])
    /\ readOpens' = [readOpens EXCEPT ![idx] = @ + 1]
    /\ Except
    /\ UNCHANGED <<md_files, disk, disk0, content, original, writeOpens,
                   readsDone, writesDone, subVars>>

\* lines 22, 26: content == original, return False
UnchangedReturnsTrue ==
    /\ pc = "compare"
    /\ ~Changed(content, original)
    /\ ret' = [ret EXCEPT ![idx] = "True"]
    /\ fixed' = fixed + 1
    /\ stdout' = Append(stdout, Line("fixed", md_files[idx], 0))
    /\ idx' = idx + 1
    /\ pc' = "loop"
    /\ UNCHANGED <<md_files, disk, disk0, content, original, readOpens,
                   writeOpens, readsDone, writesDone, subVars>>

Unchanged ==
    /\ pc = "compare"
    /\ ~Changed(content, original)
    /\ ReturnFalse
    /\ UNCHANGED <<md_files, disk, disk0, content, original, stdout, readOpens,
                   writeOpens, readsDone, writesDone, subVars>>

\* lines 22-23: open(file_path, 'w') truncates the file
OpenWriteOk ==
    /\ pc = "compare"
    /\ Changed(content, original)
    /\ writeOpens' = [writeOpens EXCEPT ![idx] = @ + 1]
    /\ disk' = [disk EXCEPT ![idx] = <<>>]
    /\ pc' = "write"
    /\ UNCHANGED <<md_files, disk0, idx, content, original, fixed, stdout,
                   readOpens, readsDone, writesDone, ret, subVars>>

\* lines 22-23: open(file_path, 'w') raises, the file is left as it was
OpenWriteFail ==
    /\ pc = "compare"
    /\ Changed(content, original)
    /\ writeOpens' = [writeOpens EXCEPT ![idx] = @ + 1]
    /\ Except
    /\ UNCHANGED <<md_files, disk, disk0, content, original, readOpens,
                   readsDone, writesDone, subVars>>

\* lines 24-25 and 39-41: the text is written, True is returned and counted
WriteOk ==
    /\ pc = "write"
    /\ disk' = [disk EXCEPT ![idx] = content]
    /\ writesDone' = [writesDone EXCEPT ![idx] = @ + 1]
    /\ ret' = [ret EXCEPT ![idx] = "True"]
    /\ fixed' = fixed + 1
    /\ stdout' = Append(stdout, Line("fixed", md_files[idx], 0))
    /\ idx' = idx + 1
    /\ pc' = "loop"
    /\ UNCHANGED <<md_files, disk0, content, original, readOpens, writeOpens,
                   readsDone, subVars>>

\* line 24 or the close raises: some prefix of the text reached the file
WriteFail ==
    /\ pc = "write"
    /\ \E n \in 0..Len(content) :
           disk' = [disk EXCEPT ![idx] = SubSeq(content, 1, n)]
    /\ Except
    /\ UNCHANGED <<md_files, disk0, content, original, readOpens, writeOpens,
                   readsDone, writesDone, subVars>>

\* line 43, after the loop
Summary ==
    /\ pc = "loop" /\ idx > NumFiles
    /\ stdout' = Append(stdout, Line("total", <<>>, fixed))
    /\ pc' = "done"
    /\ UNCHANGED <<md_files, disk, disk0, idx, content, original, fixed,
                   readOpens, writeOpens, readsDone, writesDone, ret, subVars>>

Next ==
    \/ Skip
    \/ ReadOk
    \/ ReadFail
    \/ Unchanged
    \/ OpenWriteOk
    \/ OpenWriteFail
    \/ WriteOk
    \/ WriteFail
    \/ Summary

Spec == Init /\ [][Next]_vars

\* the interpreter runs the next statement of a run that has not ended
FairSpec == Spec /\ WF_vars(Next)

-----------------------------------------------------------------------------
(* Properties of the substitution, checked under SubSpec *)

\* t without the characters at the indices in D
RECURSIVE DeleteFrom(_, _, _)
DeleteFrom(t, D, i) ==
    IF i > Len(t) THEN <<>>
    ELSE (IF i \in D THEN <<>> ELSE <<t[i]>>) \o DeleteFrom(t, D, i + 1)

DeleteAt(t, D) == DeleteFrom(t, D, 1)

\* the number of ** markers in t[1..n], paired off from the left
RECURSIVE MarkersIn(_, _, _)
MarkersIn(t, n, i) ==
    IF i + 1 > n THEN 0
    ELSE IF t[i] = "*" /\ t[i + 1] = "*" THEN 1 + MarkersIn(t, n, i + 2)
         ELSE MarkersIn(t, n, i + 1)

\* p is a space right after ** and right before a letter that starts a
\* label of non-asterisk characters ending in :**
SpaceBeforeLabel(t, p) ==
    /\ p >= 3 /\ p + 1 <= Len(t)
    /\ t[p] = " " /\ t[p - 1] = "*" /\ t[p - 2] = "*"
    /\ t[p + 1] \in Letters
    /\ \E j \in (p + 2)..(Len(t) - 2) :
          /\ t[j] = ":" /\ t[j + 1] = "*" /\ t[j + 2] = "*"
          /\ \A k \in (p + 1)..j : t[k] # "*"

\* t has ** then one space, a letter, one or more non-asterisk characters,
\* then :**
HasQualifying(t) ==
    \E p \in 1..Len(t) : \E j \in (p + 5)..(Len(t) - 2) :
        /\ t[p] = "*" /\ t[p + 1] = "*" /\ t[p + 2] = " "
        /\ t[p + 3] \in Letters
        /\ \A k \in (p + 4)..(j - 1) : t[k] # "*"
        /\ t[j] = ":" /\ t[j + 1] = "*" /\ t[j + 2] = "*"

\* p is a space right after a ** that opens a span: an even number of
\* markers lies before that **
SpaceAfterOpening(t, p) ==
    /\ p >= 3
    /\ t[p] = " " /\ t[p - 1] = "*" /\ t[p - 2] = "*"
    /\ MarkersIn(t, p - 3, 1) % 2 = 0

\* C1: applying the rule twice gives the same text as applying it once:
\* the second pass changes nothing.
C1_Idempotent == pass >= 2 => out = prev

\* C2: one pass turns `** A:** x ** B:** y` into `**A:** x **B:** y`.
C2_TwoSingleLetterLabels ==
    (text = Scenario3 /\ pass = 1) => out = Scenario3Fixed

\* C3: the output of a pass is its input with some single spaces deleted
\* and nothing else changed, and every deleted space stands right after **
\* and right before a letter starting a non-asterisk label that ends in :**.
C3_Locality ==
    pass >= 1 =>
        \E D \in SUBSET {p \in 1..Len(prev) : SpaceBeforeLabel(prev, p)} :
            out = DeleteAt(prev, D)

\* C3 witness: a pass deleted a space of a text and kept another space.
C3_Witness ==
    /\ pass = 1 /\ text = Scenario1
    /\ out = DeleteAt(text, {3}) /\ out # text

\* C8: a text with no qualifying occurrence is returned unchanged by the
\* rule, and line 22 finds nothing to report.
C8_FixedPoint ==
    (pass >= 1 /\ ~HasQualifying(prev)) => (out = prev /\ changed = FALSE)

\* C8 witness: ** 1:** x went through a pass, has no qualifying occurrence
\* and came out unchanged.
C8_Witness ==
    /\ pass = 1 /\ text = Scenario4 /\ ~HasQualifying(text)
    /\ out = text /\ changed = FALSE

\* C9: every space a pass removes follows a ** that opens a span when the
\* markers are paired off from the left, so a closed span and the text
\* right after it stay as they are.
C9_OnlyAfterOpening ==
    pass >= 1 =>
        \E D \in SUBSET {p \in 1..Len(prev) : SpaceAfterOpening(prev, p)} :
            out = DeleteAt(prev, D)

-----------------------------------------------------------------------------
(* Properties of a run, checked under Spec and FairSpec *)

\* the path holds the marker node_modules
HasMarker(p) == "node_modules" \in {p[i] : i \in 1..Len(p)}

Differing == {f \in Files : disk[f] # disk0[f]}

\* fix_bold_spacing(f) raised while reading or while writing
ReadErrored(f) == readOpens[f] > readsDone[f]
WriteErrored(f) ==
    writeOpens[f] > writesDone[f] /\ ~(idx = f /\ pc = "write")
Errored(f) == ReadErrored(f) \/ WriteErrored(f)

Printed(k, f) == \E i \in 1..Len(stdout) : stdout[i] = Line(k, md_files[f], 0)

\* C4: a file is opened for writing exactly when the transformed text
\* differs from the text read, a file whose transformed text equals its
\* text is never written, and True is returned exactly when the write
\* completed.
C4_WriteIffChanged ==
    \A f \in Files :
        /\ writeOpens[f] > 0 =>
               (readsDone[f] = 1 /\ Sub(disk0[f]) # disk0[f])
        /\ (ret[f] # "none" /\ readsDone[f] = 1 /\ Sub(disk0[f]) # disk0[f])
               => writeOpens[f] = 1
        /\ Sub(disk0[f]) = disk0[f] => (writeOpens[f] = 0 /\ disk[f] = disk0[f])
        /\ ret[f] = "True" <=> writesDone[f] = 1

\* C4 witness: the run ended having written one file and having read
\* another without writing it.
C4_Witness ==
    /\ pc = "done"
    /\ \E f, g \in Files :
          /\ writeOpens[f] = 1 /\ writesDone[f] = 1 /\ ret[f] = "True"
          /\ readsDone[g] = 1 /\ writeOpens[g] = 0 /\ ret[g] = "False"

\* C5 as stated: when main ends, fixed is the number of files whose
\* content differs from their content before the run.
C5_CountsDiffering == pc = "done" => fixed = Cardinality(Differing)

\* C5 amended: when main ends, fixed is the number of files whose content
\* differs and whose write completed; a differing file that is not counted
\* was opened for writing and its write failed.
C5_CountsCompletedWrites ==
    pc = "done" =>
        /\ fixed = Cardinality({f \in Differing : writesDone[f] = 1})
        /\ \A f \in Differing :
               writesDone[f] = 0 => (writeOpens[f] = 1 /\ ret[f] = "False")

\* C5 witness: the run ended with one file fixed and counted and another
\* left truncated by a failed write.
C5_Witness ==
    /\ pc = "done" /\ fixed = 1
    /\ \E f \in Differing : writesDone[f] = 0

\* C6: a file whose path holds node_modules is never opened, keeps its
\* content and is never counted or reported as fixed.
C6_ExcludedUntouched ==
    \A f \in Files :
        HasMarker(md_files[f]) =>
            /\ readOpens[f] = 0 /\ writeOpens[f] = 0
            /\ disk[f] = disk0[f]
            /\ ret[f] = "none"
            /\ ~Printed("fixed", f) /\ ~Printed("error", f)

\* C6 witness: the run ended and went past a file with the defect whose
\* directory name only holds node_modules as a part.
C6_Witness ==
    /\ pc = "done"
    /\ \E f \in Files :
          /\ md_files[f] = <<"my_", "node_modules", "_old", "/", "b.md">>
          /\ disk0[f] = Defect /\ disk[f] = Defect

AllProcessed ==
    \A f \in Files : ~HasMarker(md_files[f]) => ret[f] # "none"

SummaryPrinted ==
    /\ pc = "done" /\ stdout # <<>>
    /\ stdout[Len(stdout)] = Line("total", <<>>, fixed)

\* C7: a file whose read or write raised gets a diagnostic naming it, is
\* not counted as fixed, the later files are still processed, and the
\* summary line is eventually printed.
C7_ErrorIsolation ==
    /\ [](\A f \in Files :
             Errored(f) =>
                 /\ Printed("error", f) /\ ~Printed("fixed", f)
                 /\ ret[f] = "False" /\ idx > f
                 /\ fixed <= Cardinality({g \in Files : ~Errored(g)}))
    /\ <>(SummaryPrinted /\ AllProcessed)

\* C7 witness: the first file failed, a later file was fixed and the
\* summary was printed.
C7_Witness ==
    /\ SummaryPrinted
    /\ Errored(1) /\ \E g \in Files : g > 1 /\ ret[g] = "True"

\* C10: each file is attempted at most once, in the order of md_files; a
\* file is written at most once and a file not yet reached is untouched.
C10_SingleAttemptInOrder ==
    \A f \in Files :
        /\ readOpens[f] <= 1 /\ writeOpens[f] <= 1 /\ writesDone[f] <= 1
        /\ (f > idx \/ (f = idx /\ pc = "loop")) =>
               /\ disk[f] = disk0[f] /\ ret[f] = "none"
               /\ readOpens[f] = 0 /\ writeOpens[f] = 0
        /\ (f < idx /\ ~HasMarker(md_files[f])) =>
               (readOpens[f] = 1 /\ ret[f] # "none")

\* C10 witness: the first file failed and was left behind, the second is
\* being written, and nothing was tried twice.
C10_Witness ==
    /\ NumFiles >= 2 /\ idx = 2 /\ pc = "write"
    /\ Errored(1) /\ readOpens[1] = 1 /\ writeOpens[2] = 1

====
